---- MODULE Spec2Model ----
(***************************************************************************)
(* A model of certauth.py: the CertificateAuthority class (root creation   *)
(* and loading, per-host leaf issuance, the file-backed cache) together    *)
(* with the part of the file system and of pyOpenSSL the class acts on.    *)
(*                                                                         *)
(* Strings are sequences of tokens ("/" and "." are tokens of their own),  *)
(* so that path building and the kernel's path lookup are computed.        *)
(* Numbers that do not fit TLC's 32-bit integers (times in seconds,        *)
(* 64-bit serials) are sequences of 16-bit limbs, most significant first.  *)
(***************************************************************************)
EXTENDS Integers, Sequences, FiniteSets, TLC

\* ------------------------------------------------------------------ bounds

\* Key pairs the run may generate (root and host keys together).
MaxKeys == 2

\* Clock jumps the environment may make.
MaxTicks == 1

\* Failures (crypto or I/O) the environment may inject.
MaxFaults == 1

\* ------------------------------------------------------- program constants

Base == 2 ^ 16

\* a*n computed in 16 bits: what does not fit is lost
MulSmallWrapped(a, n) == <<0, (a[2] * n) % Base>>

\* a*n for a two-limb number a and a small n
MulSmall(a, n) ==
    LET lo == a[2] * n
    IN  <<a[1] * n + lo \div Base, lo % Base>>

\* a+b for two-limb numbers
Add(a, b) ==
    LET lo == a[2] + b[2]
    IN  <<a[1] + b[1] + lo \div Base, lo % Base>>

\* a-b for two-limb numbers, a >= b
Sub(a, b) ==
    IF a[2] >= b[2] THEN <<a[1] - b[1], a[2] - b[2]>>
    ELSE <<a[1] - b[1] - 1, a[2] + Base - b[2]>>

Less(a, b) == a[1] < b[1] \/ (a[1] = b[1] /\ a[2] < b[2])

\* Duration of 100 years, in seconds
CERT_DURATION == MulSmall(MulSmall(MulSmall(MulSmall(<<0, 100>>, 365), 24), 60), 60)

CERTS_DIR == <<".", "/", "pywb-certs", "/">>

CERT_NAME == <<"pywb https proxy replay CA">>

CERT_CA_FILE == <<".", "/", "pywb-ca", ".pem">>

\* Python's None, and the empty string: both falsy
None == <<>>

\* ------------------------------------------------------------ input sets

\* The callers (threads) that may run an operation of the class.
Procs == {1, 2}

\* The one caller of the single-threaded program.
MainProc == {1}

\* Hostnames handed to get_cert_for_host: a plain name, the same name
\* behind "./", and a name that climbs out of the cache directory.
Hosts == { <<"a">>, <<".", "/", "a">>, <<".", ".", "/", "pywb-ca">> }

\* Root file arguments: the default (falsy) and the explicit path.
CaFiles == { None, CERT_CA_FILE }

\* Cache directory arguments.
CertsDirs == { None, CERTS_DIR }

\* Authority names: the default (falsy) and a configured one.
CertNames == { None, <<"Test CA">> }

\* random.randint(0, 2 ** 64 - 1): the two ends of the range, four limbs
SerialDraws == { <<0, 0, 0, 0>>, <<65535, 65535, 65535, 65535>> }

\* ---------------------------------------------------------------- paths

SEP == "/"

DOT == <<".">>

DOTDOT == <<".", ".">>

\* '%s.pem' % host
PemName(host) == host \o <<".pem">>

\* os.path.sep.join(parts)
RECURSIVE SepJoin(_)
SepJoin(parts) ==
    IF Len(parts) = 0 THEN <<>>
    ELSE IF Len(parts) = 1 THEN parts[1]
    ELSE parts[1] \o <<SEP>> \o SepJoin(Tail(parts))

\* The components of a path string, split at every separator.
RECURSIVE Split(_)
Split(s) ==
    IF s = <<>> THEN << <<>> >>
    ELSE LET rest == Split(Tail(s))
         IN  IF Head(s) = SEP THEN << <<>> >> \o rest
             ELSE << <<Head(s)>> \o Head(rest) >> \o Tail(rest)

Parent(cur) ==
    IF cur = <<>> \/ cur[Len(cur)] = DOTDOT THEN Append(cur, DOTDOT)
    ELSE SubSeq(cur, 1, Len(cur) - 1)

\* The kernel's path lookup from the working directory: every component is
\* looked up in a directory that must exist; "." stays, ".." goes up.
RECURSIVE Walk(_, _, _)
Walk(comps, cur, ds) ==
    IF comps = <<>> THEN [ok |-> TRUE, path |-> cur]
    ELSE LET c == Head(comps)
         IN  IF c = <<>> THEN Walk(Tail(comps), cur, ds)
             ELSE IF cur \notin ds THEN [ok |-> FALSE, path |-> cur]
             ELSE IF c = DOT THEN Walk(Tail(comps), cur, ds)
             ELSE IF c = DOTDOT THEN Walk(Tail(comps), Parent(cur), ds)
             ELSE Walk(Tail(comps), Append(cur, c), ds)

\* ------------------------------------------------------------- PEM codec

KEY_BLOCK == "PRIVATE KEY"

CERT_BLOCK == "CERTIFICATE"

\* crypto.dump_privatekey(FILETYPE_PEM, key)
dump_privatekey(key) == [type |-> KEY_BLOCK, body |-> key]

\* crypto.dump_certificate(FILETYPE_ASN1, cert): no PEM section
dump_certificate_der(cert) == [type |-> "DER", body |-> cert]

\* crypto.dump_certificate(FILETYPE_PEM, cert)
dump_certificate(cert) == [type |-> CERT_BLOCK, body |-> cert]

\* A region of a file no write has filled.
HOLE == [type |-> "HOLE", body |-> [id |-> -1]]

\* The first block of the given type in a file's contents, if any
FirstBlock(content, type) ==
    LET idx == { i \in 1..Len(content) : content[i].type = type }
    IN  IF idx = {} THEN [found |-> FALSE, body |-> [id |-> -1]]
        ELSE [found |-> TRUE,
              body |-> content[CHOOSE i \in idx : \A j \in idx : i <= j].body]

\* crypto.load_certificate(FILETYPE_PEM, text)
load_certificate(content) == FirstBlock(content, CERT_BLOCK)

\* crypto.load_privatekey(FILETYPE_PEM, text)
load_privatekey(content) == FirstBlock(content, KEY_BLOCK)

\* A write that always lands at the start of the file
WriteAtStart(content, off, block) ==
    [i \in 1..(IF Len(content) > 1 THEN Len(content) ELSE 1) |->
        IF i = 1 THEN block ELSE content[i]]

\* f.write(block) at block offset off of a file holding content
WriteAt(content, off, block) ==
    LET n == IF Len(content) > off THEN Len(content) ELSE off
    IN  [i \in 1..n |-> IF i = off THEN block
                        ELSE IF i <= Len(content) THEN content[i]
                        ELSE HOLE]

\* --------------------------------------------------------- certificates

\* An unset key slot; key pairs are [id |-> n], n >= 0
NoKey == [id |-> -1]

\* No certificate (a fresh crypto.X509() before any field is set)
NoCert ==
    [version |-> 0, serial |-> <<0, 0, 0, 0>>, subject |-> None,
     notBefore |-> <<0, 0>>, notAfter |-> <<0, 0>>, issuer |-> None,
     pubkey |-> NoKey, ext |-> {}, sig |-> NoKey]

\* A name with a leading "./" removed
NormalizedName(n) ==
    IF Len(n) > 2 /\ n[1] = "." /\ n[2] = "/" THEN SubSeq(n, 3, Len(n)) ELSE n

\* _make_cert that normalizes the common name
make_cert_normalized(certname, serial, t) ==
    [version   |-> 3,
     serial    |-> serial,
     subject   |-> NormalizedName(certname),
     notBefore |-> Add(t, <<0, 0>>),
     notAfter  |-> Add(t, CERT_DURATION),
     issuer    |-> None,
     pubkey    |-> NoKey,
     ext       |-> {},
     sig       |-> NoKey]

\* CertificateAuthority._make_cert, with the serial drawn and the time read
make_cert(certname, serial, t) ==
    [version   |-> 3,
     serial    |-> serial,
     subject   |-> certname,
     notBefore |-> Add(t, <<0, 0>>),
     notAfter  |-> Add(t, CERT_DURATION),
     issuer    |-> None,
     pubkey    |-> NoKey,
     ext       |-> {},
     sig       |-> NoKey]

\* X509.sign(key, 'sha1'): the signature names the signing key
sign(cert, key) == [cert EXCEPT !.sig = key]

\* Verifying a certificate's signature with a public key
Verifies(cert, pubkey) == cert.sig # NoKey /\ cert.sig = pubkey

\* A key generator that yields the same key pair every time
generate_key_fixed(n) == [id |-> 1]

\* crypto.PKey().generate_key(crypto.TYPE_RSA, 2048): the n-th key pair
generate_key(n) == [id |-> n]

\* The three extensions of a root certificate
CA_EXTENSIONS ==
    { "basicConstraints=critical,CA:TRUE,pathlen:0",
      "keyUsage=critical,keyCertSign,cRLSign",
      "subjectKeyIdentifier=hash" }

\* The certificate generate_ca_root builds and signs with its own key
make_root_cert(certname, key, serial, t) ==
    LET cert == make_cert(certname, serial, t)
    IN  sign([cert EXCEPT !.issuer = cert.subject,
                          !.pubkey = key,
                          !.ext = CA_EXTENSIONS], key)

\* A host certificate signed with the host's own key
make_host_cert_self_signed(host, root_cert, root_key, key, serial, t) ==
    LET cert == make_cert(host, serial, t)
    IN  sign([cert EXCEPT !.issuer = root_cert.subject, !.pubkey = key], key)

\* The request and the certificate generate_host_cert builds; the
\* certificate is signed with the root's key
make_host_cert(host, root_cert, root_key, key, serial, t) ==
    LET req  == [subject |-> host, pubkey |-> key, sig |-> key]
        cert == make_cert(host, serial, t)
    IN  sign([cert EXCEPT !.issuer = root_cert.subject,
                          !.pubkey = req.pubkey], root_key)

\* ---------------------------------------------------------------- state

VARIABLES
    fs,       \* the files: resolved path -> contents (a sequence of blocks)
    dirs,     \* the directories that exist (resolved paths)
    now,      \* the clock, in seconds
    ticks,    \* clock jumps made
    nkeys,    \* key pairs generated so far
    nfaults,  \* failures injected so far
    mgr,      \* the CertificateAuthority object most recently constructed
    pc,       \* per caller: where it stands
    loc,      \* per caller: the locals of the call in flight
    issued,   \* hostnames whose issuance has completed successfully
    last      \* the outcome of the call that ended last

vars == <<fs, dirs, now, ticks, nkeys, nfaults, mgr, pc, loc, issued, last>>

CWD == <<>>

NoMgr ==
    [constructed |-> FALSE, ca_file |-> None, certs_dir |-> None,
     cert |-> NoCert, key |-> NoKey, loads |-> 0]

IdleLoc ==
    [op |-> "none", a1 |-> None, a2 |-> None, overwrite |-> FALSE,
     existed |-> FALSE, filename |-> None, cert |-> NoCert, key |-> NoKey,
     buf |-> <<>>]

NoResult ==
    [op |-> "none", a1 |-> None, a2 |-> None, overwrite |-> FALSE,
     status |-> "none", created |-> FALSE, existed |-> FALSE,
     path |-> None, cert |-> NoCert, key |-> NoKey, seen |-> <<>>,
     after |-> "none"]

\* The key and root a run of generate_ca_root left behind before this run
OldRootKey == generate_key(0)

OldRoot == make_root_cert(CERT_NAME, OldRootKey, <<0, 0, 0, 0>>, <<0, 0>>)

\* The file a path string names: the lookup's answer
Lookup(name) == Walk(Split(name), CWD, dirs)

\* os.path.exists(name) with the given files and directories
ExistsIn(files, ds, name) ==
    LET r == Walk(Split(name), CWD, ds)
    IN  r.ok /\ (r.path \in DOMAIN files \/ r.path \in ds)

\* os.path.exists(name)
os_path_exists(name) == ExistsIn(fs, dirs, name)

\* The contents of the file a path string names (<<>> when there is none)
ContentsAt(name) ==
    LET r == Lookup(name)
    IN  IF r.ok /\ r.path \in DOMAIN fs THEN fs[r.path] ELSE <<>>

\* The files with the file at resolved path p holding content
WithFile(files, p, content) ==
    [x \in DOMAIN files \cup {p} |-> IF x = p THEN content ELSE files[x]]

\* get_cert_for_host's file name for a host
HostFilename(certs_dir, host) == SepJoin(<<certs_dir, PemName(host)>>)

\* A test that never finds the file
ReuseNever(overwrite, filename) == FALSE

\* A test that forgets to look for the file
ReuseUnchecked(overwrite, filename) == ~overwrite

\* A test that does not reuse a certificate past its notAfter
ReuseUnlessExpired(overwrite, filename) ==
    /\ ~overwrite
    /\ os_path_exists(filename)
    /\ LET c == load_certificate(ContentsAt(filename))
       IN  c.found => ~Less(c.body.notAfter, now)

\* The test both get_cert_for_host and generate_ca_root make before they
\* generate anything: not overwrite and os.path.exists(filename)
Reuse(overwrite, filename) == ~overwrite /\ os_path_exists(filename)

\* read_pem that only looks for the private key
read_pem_key_only(files, ds, filename) ==
    LET r == Walk(Split(filename), CWD, ds)
    IN  IF ~r.ok \/ r.path \notin DOMAIN files
        THEN [status |-> "IOError", cert |-> NoCert, key |-> NoKey]
        ELSE LET c == load_certificate(files[r.path])
                 k == load_privatekey(files[r.path])
             IN  IF ~k.found
                 THEN [status |-> "ParseError", cert |-> NoCert, key |-> NoKey]
                 ELSE [status |-> "ok", cert |-> c.body, key |-> k.body]

\* CertificateAuthority.read_pem(filename) with the given files and
\* directories: open fails when there is no such file, load_certificate
\* and then load_privatekey fail when the text holds no such section
read_pem_from(files, ds, filename) ==
    LET r == Walk(Split(filename), CWD, ds)
    IN  IF ~r.ok \/ r.path \notin DOMAIN files
        THEN [status |-> "IOError", cert |-> NoCert, key |-> NoKey]
        ELSE LET c == load_certificate(files[r.path])
                 k == load_privatekey(files[r.path])
             IN  IF ~c.found \/ ~k.found
                 THEN [status |-> "ParseError", cert |-> NoCert, key |-> NoKey]
                 ELSE [status |-> "ok", cert |-> c.body, key |-> k.body]

\* CertificateAuthority.read_pem(filename)
read_pem(filename) == read_pem_from(fs, dirs, filename)

\* __init__ that does not make the cache directory
mkdir_never(ds, files, certs_dir) == ds

\* __init__'s last statement: if not os.path.exists(certs_dir):
\* os.mkdir(certs_dir)
mkdir_if_absent(ds, files, certs_dir) ==
    IF ~ExistsIn(files, ds, certs_dir)
    THEN ds \cup {Walk(Split(certs_dir), CWD, ds).path}
    ELSE ds

Init ==
    /\ fs \in { [x \in {} |-> <<>>],
                [x \in { <<<<"pywb-ca", ".pem">>>> } |->
                    <<dump_privatekey(OldRootKey), dump_certificate(OldRoot)>>] }
    /\ dirs = {CWD, <<DOTDOT>>}
    /\ now = <<0, 0>>
    /\ ticks = 0
    /\ nkeys = 0
    /\ nfaults = 0
    /\ mgr = NoMgr
    /\ pc = [p \in Procs |-> "idle"]
    /\ loc = [p \in Procs |-> IdleLoc]
    /\ issued = {}
    /\ last = NoResult

\* ------------------------------------------------------------ operations

\* Two outcomes are of the same operation called with the same arguments
SameCall(r1, r2) ==
    /\ r1.op = r2.op
    /\ r1.a1 = r2.a1
    /\ r1.a2 = r2.a2
    /\ r1.overwrite = r2.overwrite

\* A call ends (it returns or raises): its outcome is recorded, with
\* whether it repeats the call that returned just before it ("created" or
\* "reused", after what that call returned) or not ("none")
Ends(p, result) ==
    /\ pc' = [pc EXCEPT ![p] = "idle"]
    /\ loc' = [loc EXCEPT ![p] = IdleLoc]
    /\ last' = [result EXCEPT !.after =
                  IF last.status = "ok" /\ SameCall(last, result)
                  THEN (IF last.created THEN "created" ELSE "reused")
                  ELSE "none"]

\* CertificateAuthority.__init__(ca_file, certs_dir)
CertificateAuthority(p, ca_file_arg, certs_dir_arg) ==
    LET ca_file   == IF ca_file_arg = None THEN CERT_CA_FILE ELSE ca_file_arg
        certs_dir == IF certs_dir_arg = None THEN CERTS_DIR ELSE certs_dir_arg
        r         == read_pem(ca_file)
        res       == [NoResult EXCEPT !.op = "__init__", !.a1 = ca_file,
                                      !.a2 = certs_dir, !.status = r.status,
                                      !.existed = os_path_exists(ca_file),
                                      !.path = ca_file,
                                      !.cert = r.cert, !.key = r.key]
    IN  /\ pc[p] = "idle"
        /\ IF r.status # "ok"
           THEN /\ UNCHANGED <<mgr, dirs>>
           ELSE /\ mgr' = [constructed |-> TRUE, ca_file |-> ca_file,
                           certs_dir |-> certs_dir, cert |-> r.cert,
                           key |-> r.key, loads |-> 1]
                /\ dirs' = mkdir_if_absent(dirs, fs, certs_dir)
        /\ Ends(p, res)
        /\ UNCHANGED <<fs, now, ticks, nkeys, nfaults, issued>>

\* get_cert_for_host that opens the host's file before it generates the key
get_cert_for_host_open_first(p, host, overwrite, inject) ==
    LET host_filename == HostFilename(mgr.certs_dir, host)
        existed       == os_path_exists(host_filename)
        r             == Lookup(host_filename)
        opened        == IF r.ok /\ r.path \notin dirs
                         THEN WithFile(fs, r.path, <<>>) ELSE fs
        res           == [NoResult EXCEPT !.op = "get_cert_for_host", !.a1 = host,
                                          !.overwrite = overwrite,
                                          !.existed = existed,
                                          !.path = host_filename]
    IN  /\ pc[p] = "idle"
        /\ mgr.constructed
        /\ IF Reuse(overwrite, host_filename)
           THEN /\ Ends(p, [res EXCEPT !.status = "ok", !.created = FALSE,
                                       !.seen = ContentsAt(host_filename)])
                /\ UNCHANGED <<nkeys, nfaults, fs>>
           ELSE \/ /\ inject /\ nfaults < MaxFaults
                   /\ nfaults' = nfaults + 1
                   /\ fs' = opened
                   /\ Ends(p, [res EXCEPT !.status = "CryptoError"])
                   /\ UNCHANGED nkeys
                \/ /\ nkeys < MaxKeys
                   /\ nkeys' = nkeys + 1
                   /\ \E serial \in SerialDraws :
                        LET key  == generate_key(nkeys + 1)
                            cert == make_host_cert(host, mgr.cert, mgr.key,
                                                   key, serial, now)
                        IN  loc' = [loc EXCEPT ![p] =
                                      [op |-> "get_cert_for_host", a1 |-> host,
                                       a2 |-> None, overwrite |-> overwrite,
                                       existed |-> existed,
                                       filename |-> host_filename,
                                       cert |-> cert, key |-> key,
                                       buf |-> <<>>]]
                   /\ pc' = [pc EXCEPT ![p] = "write_pem_open"]
                   /\ UNCHANGED <<nfaults, last, fs>>
        /\ UNCHANGED <<dirs, now, ticks, mgr, issued>>

\* CertificateAuthority.get_cert_for_host(host, overwrite), up to the call
\* of write_pem: the existence check, then generate_host_cert's key, request
\* and signed certificate
get_cert_for_host(p, host, overwrite, inject) ==
    LET host_filename == HostFilename(mgr.certs_dir, host)
        existed       == os_path_exists(host_filename)
        res           == [NoResult EXCEPT !.op = "get_cert_for_host", !.a1 = host,
                                          !.overwrite = overwrite,
                                          !.existed = existed,
                                          !.path = host_filename]
    IN  /\ pc[p] = "idle"
        /\ mgr.constructed
        /\ IF Reuse(overwrite, host_filename)
           THEN /\ Ends(p, [res EXCEPT !.status = "ok", !.created = FALSE,
                                       !.seen = ContentsAt(host_filename)])
                /\ UNCHANGED <<nkeys, nfaults>>
           ELSE \/ /\ inject /\ nfaults < MaxFaults
                   /\ nfaults' = nfaults + 1
                   /\ Ends(p, [res EXCEPT !.status = "CryptoError"])
                   /\ UNCHANGED nkeys
                \/ /\ nkeys < MaxKeys
                   /\ nkeys' = nkeys + 1
                   /\ \E serial \in SerialDraws :
                        LET key  == generate_key(nkeys + 1)
                            cert == make_host_cert(host, mgr.cert, mgr.key,
                                                   key, serial, now)
                        IN  loc' = [loc EXCEPT ![p] =
                                      [op |-> "get_cert_for_host", a1 |-> host,
                                       a2 |-> None, overwrite |-> overwrite,
                                       existed |-> existed,
                                       filename |-> host_filename,
                                       cert |-> cert, key |-> key,
                                       buf |-> <<>>]]
                   /\ pc' = [pc EXCEPT ![p] = "write_pem_open"]
                   /\ UNCHANGED <<nfaults, last>>
        /\ UNCHANGED <<fs, dirs, now, ticks, mgr, issued>>

\* CertificateAuthority.generate_ca_root(ca_file, certname, overwrite), up
\* to the call of write_pem
generate_ca_root(p, ca_file_arg, certname_arg, overwrite, inject) ==
    LET certname == IF certname_arg = None THEN CERT_NAME ELSE certname_arg
        ca_file  == IF ca_file_arg = None THEN CERT_CA_FILE ELSE ca_file_arg
        existed  == os_path_exists(ca_file)
        res      == [NoResult EXCEPT !.op = "generate_ca_root", !.a1 = ca_file,
                                     !.a2 = certname, !.overwrite = overwrite,
                                     !.existed = existed, !.path = ca_file]
    IN  /\ pc[p] = "idle"
        /\ IF Reuse(overwrite, ca_file)
           THEN LET r == read_pem(ca_file)
                IN  /\ Ends(p, [res EXCEPT !.status = r.status, !.created = FALSE,
                                           !.cert = r.cert, !.key = r.key,
                                           !.seen = ContentsAt(ca_file)])
                    /\ UNCHANGED <<nkeys, nfaults>>
           ELSE \/ /\ inject /\ nfaults < MaxFaults
                   /\ nfaults' = nfaults + 1
                   /\ Ends(p, [res EXCEPT !.status = "CryptoError"])
                   /\ UNCHANGED nkeys
                \/ /\ nkeys < MaxKeys
                   /\ nkeys' = nkeys + 1
                   /\ \E serial \in SerialDraws :
                        LET key  == generate_key(nkeys + 1)
                            cert == make_root_cert(certname, key, serial, now)
                        IN  loc' = [loc EXCEPT ![p] =
                                      [op |-> "generate_ca_root", a1 |-> ca_file,
                                       a2 |-> certname, overwrite |-> overwrite,
                                       existed |-> existed, filename |-> ca_file,
                                       cert |-> cert, key |-> key,
                                       buf |-> <<>>]]
                   /\ pc' = [pc EXCEPT ![p] = "write_pem_open"]
                   /\ UNCHANGED <<nfaults, last>>
        /\ UNCHANGED <<fs, dirs, now, ticks, mgr, issued>>

\* What the caller of write_pem gets when it raises or returns
Outcome(p, status) ==
    [NoResult EXCEPT !.op = loc[p].op, !.a1 = loc[p].a1, !.a2 = loc[p].a2,
                     !.overwrite = loc[p].overwrite, !.existed = loc[p].existed,
                     !.path = loc[p].filename, !.status = status]

\* write_pem: open(filename, 'wb+') creates the file or truncates it
write_pem_open(p, inject) ==
    LET r == Lookup(loc[p].filename)
    IN  /\ pc[p] = "write_pem_open"
        /\ IF ~r.ok \/ r.path \in dirs
           THEN /\ Ends(p, Outcome(p, "IOError"))
                /\ UNCHANGED <<fs, nfaults>>
           ELSE \/ /\ inject /\ nfaults < MaxFaults
                   /\ nfaults' = nfaults + 1
                   /\ Ends(p, Outcome(p, "IOError"))
                   /\ UNCHANGED fs
                \/ /\ fs' = WithFile(fs, r.path, <<>>)
                   /\ pc' = [pc EXCEPT ![p] = "write_pem_key"]
                   /\ UNCHANGED <<nfaults, loc, last>>
        /\ UNCHANGED <<dirs, now, ticks, nkeys, mgr, issued>>

\* The blocks written one after the other from block offset off
RECURSIVE WriteAll(_, _, _)
WriteAll(content, off, blocks) ==
    IF blocks = <<>> THEN content
    ELSE WriteAll(WriteAt(content, off, Head(blocks)), off + 1, Tail(blocks))

\* write_pem: f.write(crypto.dump_privatekey(FILETYPE_PEM, key)). The file
\* object is buffered: the key reaches the file now (the buffer is smaller
\* than the key) or stays in the buffer until the next flush
write_pem_key(p, inject) ==
    LET r == Lookup(loc[p].filename)
    IN  /\ pc[p] = "write_pem_key"
        /\ \/ /\ inject /\ nfaults < MaxFaults
              /\ nfaults' = nfaults + 1
              /\ Ends(p, Outcome(p, "IOError"))
              /\ UNCHANGED fs
           \/ /\ fs' = WithFile(fs, r.path,
                                WriteAt(fs[r.path], 1, dump_privatekey(loc[p].key)))
              /\ pc' = [pc EXCEPT ![p] = "write_pem_cert"]
              /\ UNCHANGED <<nfaults, loc, last>>
           \/ /\ loc' = [loc EXCEPT ![p].buf = <<dump_privatekey(loc[p].key)>>]
              /\ pc' = [pc EXCEPT ![p] = "write_pem_cert"]
              /\ UNCHANGED <<nfaults, fs, last>>
        /\ UNCHANGED <<dirs, now, ticks, nkeys, mgr, issued>>

\* write_pem: f.write(crypto.dump_certificate(FILETYPE_PEM, cert)), the file
\* is closed (what the buffer holds reaches the file in one write), and the
\* caller returns what it made
write_pem_cert(p, inject) ==
    LET r == Lookup(loc[p].filename)
    IN  /\ pc[p] = "write_pem_cert"
        /\ \/ /\ inject /\ nfaults < MaxFaults
              /\ nfaults' = nfaults + 1
              /\ Ends(p, Outcome(p, "IOError"))
              /\ UNCHANGED <<fs, issued>>
           \/ LET out   == Append(loc[p].buf, dump_certificate(loc[p].cert))
                  files == WithFile(fs, r.path,
                             WriteAll(fs[r.path], 3 - Len(out), out))
              IN  /\ fs' = files
                  /\ Ends(p, [Outcome(p, "ok") EXCEPT
                                !.created = TRUE, !.cert = loc[p].cert,
                                !.key = loc[p].key, !.seen = files[r.path]])
                  /\ issued' = IF loc[p].op = "get_cert_for_host"
                               THEN issued \cup {loc[p].a1} ELSE issued
                  /\ UNCHANGED nfaults
        /\ UNCHANGED <<dirs, now, ticks, nkeys, mgr>>

\* Time passes: more than the validity of a certificate
Tick ==
    /\ ticks < MaxTicks
    /\ ticks' = ticks + 1
    /\ now' = Add(now, Add(CERT_DURATION, <<0, 1>>))
    /\ UNCHANGED <<fs, dirs, nkeys, nfaults, mgr, pc, loc, issued, last>>

\* No call is in flight
AllIdle == \A q \in Procs : pc[q] = "idle"

\* The operations a caller may start; inject says whether the environment
\* may make a step of the call fail
Call(p, inject, names) ==
    \/ \E ca_file \in CaFiles, certs_dir \in CertsDirs :
         CertificateAuthority(p, ca_file, certs_dir)
    \/ \E host \in Hosts, overwrite \in BOOLEAN :
         get_cert_for_host(p, host, overwrite, inject)
    \/ \E ca_file \in CaFiles, certname \in names, overwrite \in BOOLEAN :
         generate_ca_root(p, ca_file, certname, overwrite, inject)

\* The steps of a call in flight
Step(p, inject) ==
    \/ write_pem_open(p, inject)
    \/ write_pem_key(p, inject)
    \/ write_pem_cert(p, inject)

\* The single-threaded program of the specification, one call at a time,
\* in an environment where key generation, signing and writes may fail
Next ==
    \/ \E p \in MainProc : AllIdle /\ Call(p, TRUE, CertNames)
    \/ \E p \in MainProc : Step(p, TRUE)

Spec == Init /\ [][Next]_vars

\* The same program with no failures and the default authority name, while
\* time passes
NextClock ==
    \/ \E p \in MainProc : AllIdle /\ Call(p, FALSE, {None})
    \/ \E p \in MainProc : Step(p, FALSE)
    \/ Tick

SpecClock == Init /\ [][NextClock]_vars

\* The names of the parameters __init__ takes, besides self
INIT_PARAMS == { "ca_file", "certs_dir" }

\* The keywords main passes to the constructor
MAIN_KWARGS == { "ca_file", "certs_dir", "certname" }

\* Python's binding of keyword arguments to a function's parameters
BindKeywords(params, kwargs) ==
    IF kwargs \subseteq params THEN "ok" ELSE "TypeError"

\* The values of -r/--use-root that select host-issuance mode
UseRoots == { CERT_CA_FILE }

\* main() with -r/--use-root: the constructor is called with ca_file,
\* certs_dir and certname; binding the keywords raises before __init__'s
\* body runs, nothing catches it, and the lines after the call (the
\* get_cert_for_host call and the prints) are not reached
main_use_root(p, output_file, use_root, name, certs_dir, force) ==
    LET bound == BindKeywords(INIT_PARAMS, MAIN_KWARGS)
        root  == read_pem(use_root)
    IN  /\ pc[p] = "idle"
        /\ bound # "ok"
        /\ Ends(p, [NoResult EXCEPT !.op = "main", !.a1 = output_file,
                                    !.a2 = use_root, !.overwrite = force,
                                    !.existed = (root.status = "ok"),
                                    !.path = HostFilename(certs_dir, output_file),
                                    !.status = bound])
        /\ UNCHANGED <<fs, dirs, now, ticks, nkeys, nfaults, mgr, issued>>

\* main() without -r/--use-root: generate_ca_root(output_file, name, force)
\* and a print of what it returned
main_generate(p, output_file, name, force) ==
    generate_ca_root(p, output_file, name, force, FALSE)

\* The command run again and again from one working directory, in either
\* mode; nothing fails
NextMain ==
    \/ \E p \in MainProc, output_file \in Hosts, use_root \in UseRoots,
          name \in CertNames, force \in BOOLEAN :
         AllIdle /\ main_use_root(p, output_file, use_root, name, CERTS_DIR, force)
    \/ \E p \in MainProc, output_file \in CaFiles, name \in CertNames,
          force \in BOOLEAN :
         AllIdle /\ main_generate(p, output_file, name, force)
    \/ \E p \in MainProc : Step(p, FALSE)

SpecMain == Init /\ [][NextMain]_vars

\* The hostname the threads of the multi-threaded program ask for
RaceHosts == { <<"a">> }

\* Threads that share one manager: the manager is constructed while no call
\* is in flight, and then any idle thread may ask for the host's
\* certificate while another thread's call is in flight; nothing fails
NextRace ==
    \/ \E p \in Procs, ca_file \in CaFiles, certs_dir \in CertsDirs :
         AllIdle /\ CertificateAuthority(p, ca_file, certs_dir)
    \/ \E p \in Procs, host \in RaceHosts, overwrite \in BOOLEAN :
         get_cert_for_host(p, host, overwrite, FALSE)
    \/ \E p \in Procs : Step(p, FALSE)

SpecRace == Init /\ [][NextRace]_vars

\* ------------------------------------------------------------ properties

\* Caller p starts a call in this step that stays in flight after it
Begins(p, op) == pc[p] = "idle" /\ pc'[p] # "idle" /\ loc'[p].op = op

\* A call of op starts and ends (returns or raises) within this step
EndsAtOnce(op) == AllIdle /\ AllIdle' /\ last' # last /\ last'.op = op

\* A call of op that was in flight ends in this step
EndsInFlight(op) == ~AllIdle /\ AllIdle' /\ last' # last /\ last'.op = op

\* C1: whenever get_cert_for_host(h, overwrite=False) is called while h's
\* cache file exists, the call returns (False, path) at once, generates no
\* key, starts no write and leaves every file as it was; when it follows a
\* call with the same arguments it returns that call's path and sees the
\* contents that call left.
C1_CachedHostIsReused ==
    [][ /\ \A p \in Procs :
             (Begins(p, "get_cert_for_host") /\ ~loc'[p].overwrite)
                => ~os_path_exists(loc'[p].filename)
        /\ (EndsAtOnce("get_cert_for_host") /\ ~last'.overwrite
               /\ os_path_exists(last'.path))
             => /\ last'.status = "ok"
                /\ last'.created = FALSE
                /\ last'.path = HostFilename(mgr.certs_dir, last'.a1)
                /\ UNCHANGED <<fs, dirs, nkeys, mgr>>
                /\ last'.seen = ContentsAt(last'.path)
                /\ last'.after # "none" => /\ last'.path = last.path
                                         /\ last'.seen = last.seen
      ]_vars

\* C1 witness: a second call in sequence for a cached host has returned
\* (False, path) with a complete file behind the path.
C1_Witness ==
    /\ last.op = "get_cert_for_host"
    /\ ~last.overwrite
    /\ last.after # "none"
    /\ last.status = "ok"
    /\ ~last.created
    /\ Len(last.seen) = 2

\* A call of op ends in this step, however it started
CallEnds(op) == last' # last /\ last'.op = op

\* C2: get_cert_for_host(h, overwrite=False) never returns without a file
\* behind the path; called for a host with no cache file it returns, when it
\* returns, created=True with the file in place; and a call that follows a
\* returned call with the same arguments returns created=False and the same
\* path.
C2_CreatedOnceThenReused ==
    [][ /\ (EndsAtOnce("get_cert_for_host") /\ ~last'.overwrite
               /\ ~os_path_exists(last'.path))
             => last'.status # "ok"
        /\ (EndsInFlight("get_cert_for_host") /\ ~last'.overwrite
               /\ last'.status = "ok")
             => /\ last'.created
                /\ ~last'.existed
                /\ last'.path = HostFilename(mgr.certs_dir, last'.a1)
                /\ ExistsIn(fs', dirs', last'.path)
        /\ (CallEnds("get_cert_for_host") /\ ~last'.overwrite
               /\ last'.status = "ok" /\ last'.after # "none")
             => /\ ~last'.created
                /\ last'.path = last.path
      ]_vars

\* C2 witness: right after a call that created the host's file, the same
\* call has returned created=False.
C2_Witness ==
    /\ last.op = "get_cert_for_host"
    /\ ~last.overwrite
    /\ last.status = "ok"
    /\ last.after = "created"
    /\ ~last.created

\* C3 as claimed: two calls get_cert_for_host(h, overwrite=True) in sequence
\* both return created=True, and their certificates have different serial
\* numbers and different keys and are both signed by the loaded root.
C3_DistinctSerialsAndKeys ==
    [][ (CallEnds("get_cert_for_host") /\ last'.overwrite
           /\ last'.status = "ok" /\ last'.after # "none")
         => /\ last.created /\ last'.created
            /\ last'.cert.serial # last.cert.serial
            /\ last'.key # last.key
            /\ last'.cert.pubkey # last.cert.pubkey
            /\ Verifies(last.cert, mgr.cert.pubkey)
            /\ Verifies(last'.cert, mgr.cert.pubkey)
      ]_vars

\* C3 amended: two calls get_cert_for_host(h, overwrite=True) in sequence
\* both return created=True, and their certificates have different keys and
\* are both signed by the loaded root; each serial is a draw of its own from
\* [0, 2^64), and the two draws may coincide.
C3_DistinctKeysSameRoot ==
    [][ (CallEnds("get_cert_for_host") /\ last'.overwrite
           /\ last'.status = "ok" /\ last'.after # "none")
         => /\ last.created /\ last'.created
            /\ last'.cert.serial \in SerialDraws
            /\ last.cert.serial \in SerialDraws
            /\ last'.key # last.key
            /\ last'.cert.pubkey # last.cert.pubkey
            /\ Verifies(last.cert, mgr.cert.pubkey)
            /\ Verifies(last'.cert, mgr.cert.pubkey)
            /\ mgr' = mgr
      ]_vars

\* C3 witness: the second of two overwrite=True calls in sequence has
\* returned a new certificate.
C3_Witness ==
    /\ last.op = "get_cert_for_host"
    /\ last.overwrite
    /\ last.status = "ok"
    /\ last.after = "created"
    /\ last.created

\* C4: generate_ca_root(path, name, overwrite=False) starts no generation
\* while a file exists at path; called with no file there it returns, when
\* it returns, created=True with the new root readable from path; called
\* with a file there it writes nothing and returns created=False; and a
\* call that follows a returned call with the same arguments returns
\* created=False and that call's root (same certificate, hence same
\* serial, and same key).
C4_RootCreatedOnceThenLoaded ==
    [][ /\ \A p \in Procs :
             (Begins(p, "generate_ca_root") /\ ~loc'[p].overwrite)
                => ~os_path_exists(loc'[p].filename)
        /\ (EndsInFlight("generate_ca_root") /\ ~last'.overwrite
               /\ last'.status = "ok")
             => /\ last'.created
                /\ ~last'.existed
                /\ read_pem_from(fs', dirs', last'.path) =
                      [status |-> "ok", cert |-> last'.cert, key |-> last'.key]
        /\ (EndsAtOnce("generate_ca_root") /\ ~last'.overwrite
               /\ os_path_exists(last'.path))
             => /\ ~last'.created
                /\ UNCHANGED <<fs, dirs, nkeys>>
        /\ (CallEnds("generate_ca_root") /\ ~last'.overwrite
               /\ last'.status = "ok" /\ last'.after # "none")
             => /\ ~last'.created
                /\ last'.cert = last.cert
                /\ last'.cert.serial = last.cert.serial
                /\ last'.key = last.key
                /\ fs' = fs
      ]_vars

\* C4 witness: right after a call that created the root, the same call has
\* returned created=False.
C4_Witness ==
    /\ last.op = "generate_ca_root"
    /\ ~last.overwrite
    /\ last.status = "ok"
    /\ last.after = "created"
    /\ ~last.created
    /\ last.cert.ext = CA_EXTENSIONS

\* The text holds no certificate section or no private key section
Malformed(content) ==
    \/ \A i \in 1..Len(content) : content[i].type # CERT_BLOCK
    \/ \A i \in 1..Len(content) : content[i].type # KEY_BLOCK

\* C5: when the root file exists and is malformed, generate_ca_root with
\* overwrite=False and the constructor fail with a parse error at once:
\* no key is generated, no write is started, no manager is made, and every
\* file and directory is left as it was.
C5_MalformedRootAborts ==
    [][ /\ \A p \in Procs :
             (Begins(p, "generate_ca_root") /\ ~loc'[p].overwrite)
                => ~os_path_exists(loc'[p].filename)
        /\ ((EndsAtOnce("generate_ca_root") \/ EndsAtOnce("__init__"))
               /\ ~last'.overwrite
               /\ os_path_exists(last'.path)
               /\ Malformed(ContentsAt(last'.path)))
             => /\ last'.status = "ParseError"
                /\ ~last'.created
                /\ UNCHANGED <<fs, dirs, nkeys, mgr>>
      ]_vars

\* C5 witness: the constructor has failed with a parse error on a root
\* file that holds a key section and nothing else.
C5_Witness ==
    /\ last.op = "__init__"
    /\ last.status = "ParseError"
    /\ Len(ContentsAt(last.path)) = 1
    /\ ContentsAt(last.path)[1].type = KEY_BLOCK

\* C6: the certificate a completed host issuance returns names the loaded
\* root's subject as its issuer, is signed with the loaded root's private
\* key and verifies with the root certificate's public key, and carries the
\* public key of the new key pair; the file it is written to holds exactly
\* that key followed by that certificate, until the next call.
C6_HostCertChainsToRoot ==
    (last.op = "get_cert_for_host" /\ last.status = "ok" /\ last.created)
      => /\ last.cert.issuer = mgr.cert.subject
         /\ last.cert.sig = mgr.key
         /\ Verifies(last.cert, mgr.cert.pubkey)
         /\ last.cert.pubkey = last.key
         /\ last.key # mgr.key
         /\ last.seen = <<dump_privatekey(last.key), dump_certificate(last.cert)>>
         /\ AllIdle => ContentsAt(last.path) = last.seen

\* C6 witness: a host issuance has completed under a loaded root.
C6_Witness ==
    /\ last.op = "get_cert_for_host"
    /\ last.status = "ok"
    /\ last.created
    /\ mgr.constructed
    /\ last.cert.subject = last.a1

\* The resolved path of the file get_cert_for_host uses for a host
HostFile(h) == Lookup(HostFilename(mgr.certs_dir, h))

\* Resolved path f lies inside the manager's cache directory
InCacheDir(f) ==
    LET d == Lookup(mgr.certs_dir).path
    IN  Len(d) < Len(f) /\ SubSeq(f, 1, Len(d)) = d

\* C7 as claimed: with no call in flight, the cache file of a host (a file
\* inside the cache directory) exists if and only if an issuance writing
\* that file has completed successfully; and after an issuance for a host
\* without a file has failed, there is no file at the host's path.
C7_CacheEntryInvariant ==
    (AllIdle /\ mgr.constructed)
      => /\ \A h \in Hosts :
              (HostFile(h).ok /\ InCacheDir(HostFile(h).path))
                => ((HostFile(h).path \in DOMAIN fs)
                      <=> (\E h2 \in issued : HostFile(h2).path = HostFile(h).path))
         /\ (last.op = "get_cert_for_host" /\ last.status # "ok" /\ ~last.existed)
              => ~os_path_exists(last.path)

\* C8: a file that exists keeps existing; a call starts an issuance over an
\* existing file only with overwrite=True, and then with a key pair that is
\* not the one in the file and a serial drawn for it; a file changes only
\* under the call in flight that writes it; a completed overwrite leaves the
\* new key and certificate in the file; a call with overwrite=False for a
\* cached host returns the cached file at any time, also past the
\* certificate's notAfter; and the clock moving changes nothing else.
C8_CachedUntilOverwritten ==
    [][ /\ \A f \in DOMAIN fs : f \in DOMAIN fs'
        /\ \A p \in Procs :
             (pc[p] = "idle" /\ pc'[p] # "idle" /\ os_path_exists(loc'[p].filename))
                => /\ loc'[p].overwrite
                   /\ loc'[p].key # load_privatekey(ContentsAt(loc'[p].filename)).body
                   /\ loc'[p].cert.pubkey = loc'[p].key
                   /\ loc'[p].cert.serial \in SerialDraws
                   /\ loc'[p].cert.notBefore = now
        /\ \A f \in DOMAIN fs :
             fs'[f] # fs[f]
                => \E p \in Procs : /\ pc[p] # "idle"
                                    /\ Lookup(loc[p].filename).path = f
                                    /\ (loc[p].overwrite \/ ~loc[p].existed)
        /\ (EndsInFlight("get_cert_for_host") /\ last'.status = "ok")
             => /\ last'.created
                /\ last'.seen = <<dump_privatekey(last'.key),
                                  dump_certificate(last'.cert)>>
                /\ fs'[Lookup(last'.path).path] = last'.seen
        /\ (EndsAtOnce("get_cert_for_host") /\ ~last'.overwrite
               /\ os_path_exists(last'.path))
             => /\ last'.status = "ok"
                /\ ~last'.created
                /\ fs' = fs
        /\ now' # now => UNCHANGED <<fs, dirs, mgr, pc, loc, last>>
      ]_vars

\* C8 witness: a cached certificate has been returned past its notAfter.
C8_Witness ==
    /\ last.op = "get_cert_for_host"
    /\ last.status = "ok"
    /\ ~last.created
    /\ Len(last.seen) = 2
    /\ last.seen[2].type = CERT_BLOCK
    /\ Less(last.seen[2].body.notAfter, now)

RootPresent(name) ==
    /\ Lookup(name).ok
    /\ Lookup(name).path \in DOMAIN fs
    /\ ~Malformed(fs[Lookup(name).path])

C10_OneFilePerHostInCacheDir ==
    mgr.constructed
      => \A h1, h2 \in Hosts :
            /\ HostFile(h1).ok
            /\ InCacheDir(HostFile(h1).path)
            /\ h1 # h2 => HostFile(h1).path # HostFile(h2).path

\* C11: when get_cert_for_host raises because key generation or signing
\* failed, it raises before write_pem is entered, in the call that failed
\* (no retry: no key is counted, no write is started); no file and no
\* directory changes, so no file appears at the host's path when none
\* existed and an existing file, which the call met only with
\* overwrite=True, is left as it was; no hostname is recorded as issued; and
\* the reuse test for the same request is still false afterwards, so the
\* same request made again attempts issuance again.
C11_CryptoFailureNotCached ==
    [][ (CallEnds("get_cert_for_host") /\ last'.status = "CryptoError")
          => /\ pc = pc'
             /\ UNCHANGED <<fs, dirs, mgr, issued, nkeys>>
             /\ ~last'.created
             /\ last'.existed => last'.overwrite
             /\ ExistsIn(fs', dirs', last'.path) = last'.existed
             /\ last'.existed
                  => fs'[Walk(Split(last'.path), CWD, dirs').path]
                       = ContentsAt(last'.path)
             /\ ~(~last'.overwrite /\ ExistsIn(fs', dirs', last'.path))
      ]_vars

\* C11 witness: after a request failed in key generation or signing, the
\* same request made again is past the reuse test and has generated a
\* certificate it is about to write.
C11_Witness ==
    \E p \in Procs :
        /\ last.op = "get_cert_for_host"
        /\ last.status = "CryptoError"
        /\ pc[p] = "write_pem_open"
        /\ loc[p].op = "get_cert_for_host"
        /\ loc[p].a1 = last.a1
        /\ loc[p].overwrite = last.overwrite
        /\ loc[p].cert.subject = last.a1

\* C12 as claimed: when no request is in flight any more, the file of the
\* request that returned created=True last holds exactly what that request
\* wrote, its private key followed by its certificate, so the key in the
\* file is the key the certificate in the file certifies.
C12_LastWriterWins ==
    (AllIdle /\ last.op = "get_cert_for_host" /\ last.status = "ok"
       /\ last.created)
      => /\ ContentsAt(last.path)
              = <<dump_privatekey(last.key), dump_certificate(last.cert)>>
         /\ load_certificate(ContentsAt(last.path)).body.pubkey
              = load_privatekey(ContentsAt(last.path)).body

\* C13: whenever write_pem(filename, cert, key) has returned, the file holds
\* two sections, the private key first and the certificate second, and
\* read_pem of the same file succeeds and yields that certificate and that
\* private key, whatever the file held before.
C13_WriteThenReadRoundTrips ==
    [][ \A op \in {"get_cert_for_host", "generate_ca_root"} :
          (EndsInFlight(op) /\ last'.status = "ok")
            => LET back == read_pem_from(fs', dirs', last'.path)
                   text == fs'[Walk(Split(last'.path), CWD, dirs').path]
               IN  /\ back.status = "ok"
                   /\ back.cert = last'.cert
                   /\ back.key = last'.key
                   /\ back.cert # NoCert /\ back.key # NoKey
                   /\ Len(text) = 2
                   /\ text[1] = dump_privatekey(last'.key)
                   /\ text[2] = dump_certificate(last'.cert)
                   /\ text[1].type = KEY_BLOCK /\ text[2].type = CERT_BLOCK
      ]_vars

\* C13 witness: write_pem has replaced a file that held another key and
\* certificate, and read_pem of the file yields what was written.
C13_Witness ==
    /\ AllIdle
    /\ last.status = "ok"
    /\ last.created
    /\ last.existed
    /\ read_pem(last.path).status = "ok"
    /\ read_pem(last.path).cert = last.cert
    /\ read_pem(last.path).key = last.key
    /\ last.key # OldRootKey

\* C14 as claimed: every run of the command ends successfully: a run in
\* host-issuance mode over a well-formed root file returns without an error
\* and leaves the host's certificate file behind the path it prints, and a
\* run in root-generation mode returns without an error, having created or
\* reused the root.
C14_CommandExitsSuccessfully ==
    /\ (last.op = "main" /\ last.existed)
         => /\ last.status = "ok"
            /\ os_path_exists(last.path)
    /\ last.op = "generate_ca_root"
         => /\ last.status = "ok"
            /\ os_path_exists(last.path)

\* C15: the subject CN of the certificate of every issuance, in flight or
\* returned, and of the certificate in the file a returned issuance left,
\* is the hostname string that was passed to get_cert_for_host, token for
\* token; and the subject CN of every root generate_ca_root makes is the
\* authority name it was given, or CERT_NAME when it was given none.
C15_SubjectIsTheNamePassed ==
    /\ \A p \in Procs :
         /\ (pc[p] # "idle" /\ loc[p].op = "get_cert_for_host")
              => loc[p].cert.subject = loc[p].a1
         /\ (pc[p] # "idle" /\ loc[p].op = "generate_ca_root")
              => loc[p].cert.subject = loc[p].a2
    /\ (last.status = "ok" /\ last.created /\ last.op = "get_cert_for_host")
         => /\ last.a1 \in Hosts
            /\ last.cert.subject = last.a1
            /\ load_certificate(last.seen).body.subject = last.a1
    /\ (last.status = "ok" /\ last.created /\ last.op = "generate_ca_root")
         => /\ last.a2 \in (CertNames \ {None}) \cup {CERT_NAME}
            /\ last.cert.subject = last.a2
            /\ last.cert.issuer = last.a2
            /\ load_certificate(last.seen).body.subject = last.a2

\* C15 witness: a certificate has been issued for a hostname that a path
\* normalization would change, and a root has been made under a configured
\* name before it.
C15_Witness ==
    /\ last.op = "get_cert_for_host"
    /\ last.status = "ok"
    /\ last.created
    /\ last.a1 = <<".", "/", "a">>
    /\ last.cert.subject = <<".", "/", "a">>
    /\ last.cert.issuer = <<"Test CA">>

\* What the manager's root file holds, with the given files and directories
RootFileText(files, ds) ==
    LET r == Walk(Split(mgr.ca_file), CWD, ds)
    IN  IF r.ok /\ r.path \in DOMAIN files THEN files[r.path] ELSE <<>>

\* C16 as claimed: no step of a get_cert_for_host call, whatever the
\* hostname and the overwrite value, changes the root certificate and key
\* the manager holds or what the manager's root file holds.
C16_RootIsReadOnly ==
    [][ (\/ EndsAtOnce("get_cert_for_host")
         \/ \E p \in Procs : \/ Begins(p, "get_cert_for_host")
                             \/ (pc[p] # "idle" /\ pc'[p] # pc[p]
                                   /\ loc[p].op = "get_cert_for_host"))
          => /\ mgr' = mgr
             /\ RootFileText(fs', dirs') = RootFileText(fs, dirs)
      ]_vars

\* a divided by a small n: quotient (two limbs) and remainder
DivSmall(a, n) ==
    LET lo == (a[1] % n) * Base + a[2]
    IN  [q |-> <<a[1] \div n, lo \div n>>, r |-> lo % n]

\* The decimal digits of a two-limb number, most significant first
RECURSIVE Decimal(_)
Decimal(a) ==
    IF a = <<0, 0>> THEN <<>>
    ELSE Append(Decimal(DivSmall(a, 10).q), DivSmall(a, 10).r)

\* The certificates of the run: in flight, returned last, loaded, in files
CertsBuilt ==
    { loc[p].cert : p \in { q \in Procs : pc[q] # "idle" } }
      \cup (IF last.status = "ok" /\ last.cert # NoCert THEN {last.cert} ELSE {})
      \cup (IF mgr.constructed THEN {mgr.cert} ELSE {})
      \cup { load_certificate(fs[f]).body :
               f \in { g \in DOMAIN fs : load_certificate(fs[g]).found } }

\* Clock readings on which the sum carries into the upper limb
CarryTimes == { <<0, 0>>, <<0, 65535>>, <<25000, 60000>>, <<65535, 65535>> }

\* 3153600000, digit by digit
HundredYears == <<3, 1, 5, 3, 6, 0, 0, 0, 0, 0>>

\* The builder's arithmetic on its own: CERT_DURATION is 3153600000, and
\* for every clock reading, also where the sum carries, the template's
\* notBefore is the reading and notAfter - notBefore is 3153600000
TemplateDuration ==
    /\ Decimal(CERT_DURATION) = HundredYears
    /\ \A t \in CarryTimes, serial \in SerialDraws :
         LET tpl == make_cert(CERT_NAME, serial, t)
         IN  /\ tpl.notBefore = t
             /\ Less(tpl.notBefore, tpl.notAfter)
             /\ tpl.notAfter[2] \in 0..(Base - 1)
             /\ Decimal(Sub(tpl.notAfter, tpl.notBefore)) = HundredYears

C18_ReturnedCertSignedByLoadedRoot ==
    (AllIdle /\ last.op = "get_cert_for_host" /\ last.status = "ok"
       /\ mgr.cert.ext = CA_EXTENSIONS /\ Verifies(mgr.cert, mgr.cert.pubkey)
       /\ Lookup(last.path).ok /\ InCacheDir(Lookup(last.path).path))
      => /\ load_certificate(ContentsAt(last.path)).found
         /\ Verifies(load_certificate(ContentsAt(last.path)).body, mgr.cert.pubkey)

\* C19 as claimed: when get_cert_for_host(h, overwrite=False) has returned
\* (False, path), the file at path held, at the return, exactly a private
\* key section followed by a certificate section for that key.
C19_ReusedFileIsComplete ==
    (last.op = "get_cert_for_host" /\ last.status = "ok" /\ ~last.overwrite
       /\ ~last.created)
      => /\ Len(last.seen) = 2
         /\ last.seen[1].type = KEY_BLOCK
         /\ last.seen[2].type = CERT_BLOCK
         /\ last.seen[2].body.pubkey = last.seen[1].body

====
